---- MODULE Spec2Model ----
(***************************************************************************)
(* The Scanner of rust-lox (src/src/scanner.rs): one linear pass over a    *)
(* borrowed source buffer that produces a token list and an error list.    *)
(*                                                                         *)
(* Bytes are one-character strings, the source is a sequence of bytes, and *)
(* start / current are the 0-based byte offsets of the code, so that the   *)
(* byte at offset i is source[i + 1] and the slice source[a..b] is         *)
(* SubSeq(source, a + 1, b).                                               *)
(***************************************************************************)
EXTENDS Integers, Sequences, FiniteSets, TLC

VARIABLES source, tokens, start, current, line, errors, passes, scans

vars == <<source, tokens, start, current, line, errors, passes, scans>>

(***************************************************************************)
(* Bounds of the model.                                                    *)
(***************************************************************************)
\* Longest source text scanned.
MaxLen == 4

\* Number of scan_tokens calls made on one Scanner.
MaxPasses == 2

\* Number of Scanners constructed, one after the other, on the same text.
MaxScanners == 2

\* The bytes source texts are drawn from: punctuation, the '.' and '/' that
\* have look-ahead behaviour, operator characters, whitespace, newline, the
\* quote, a digit, letters of both cases (spelling the keyword "or"), the
\* underscore and a byte that starts no lexeme.
Alphabet ==
  {"(", ".", "/", "!", "=", " ", "\n", "\"", "1", "o", "r", "O", "_", "@"}

SourceTexts == UNION {[1..n -> Alphabet] : n \in 0..MaxLen}

(***************************************************************************)
(* Bytes and their classification.                                         *)
(***************************************************************************)
\* b'\0', the sentinel peek and peek_next return at the end of the input.
NUL == "NUL"

Digits == {"0", "1", "2", "3", "4", "5", "6", "7", "8", "9"}

Letters ==
  {"a", "b", "c", "d", "e", "f", "g", "h", "i", "j", "k", "l", "m",
   "n", "o", "p", "q", "r", "s", "t", "u", "v", "w", "x", "y", "z",
   "A", "B", "C", "D", "E", "F", "G", "H", "I", "J", "K", "L", "M",
   "N", "O", "P", "Q", "R", "S", "T", "U", "V", "W", "X", "Y", "Z"}

is_ascii_digit(c) == c \in Digits

is_ascii_alphabetic(c) == c \in Letters

is_ascii_alphanumeric(c) == c \in Letters \cup Digits

(***************************************************************************)
(* Tokens.                                                                 *)
(***************************************************************************)
\* Option<String>: None, or Some(v) holding the byte sequence v.
None == <<>>

Some(v) == <<v>>

\* Token::new(token_type, lexeme, literal, line)
Token(token_type, lexeme, literal, ln) ==
  [type |-> token_type, lexeme |-> lexeme, literal |-> literal, line |-> ln]

(***************************************************************************)
(* The Scanner's helpers.  s is the record of the mutable fields           *)
(* [tokens, start, current, line, errors]; src is the borrowed source.     *)
(***************************************************************************)
new ==
  [tokens |-> <<>>, start |-> 0, current |-> 0, line |-> 1, errors |-> <<>>]

is_at_end(src, s) == s.current >= Len(src)

\* The byte advance returns is src[s.current + 1]; this is the state after.
advance(s) == [s EXCEPT !.current = @ + 1]

add_token(src, s, token_type) ==
  [s EXCEPT !.tokens =
     Append(@, Token(token_type, SubSeq(src, s.start + 1, s.current),
                     None, s.line))]

\* Faulty variant of match_char: reports the match without consuming the byte.
match_char_no_advance(src, s, expected) ==
  IF s.current >= Len(src) THEN [matched |-> FALSE, s |-> s]
  ELSE IF src[s.current + 1] # expected THEN [matched |-> FALSE, s |-> s]
  ELSE [matched |-> TRUE, s |-> s]

\* The result of match_char and the state it leaves.
match_char(src, s, expected) ==
  IF is_at_end(src, s) THEN [matched |-> FALSE, s |-> s]
  ELSE IF src[s.current + 1] # expected THEN [matched |-> FALSE, s |-> s]
  ELSE [matched |-> TRUE, s |-> [s EXCEPT !.current = @ + 1]]

peek(src, s) == IF is_at_end(src, s) THEN NUL ELSE src[s.current + 1]

peek_next(src, s) ==
  IF s.current + 1 >= Len(src) THEN NUL ELSE src[s.current + 2]


\* Faulty variant of the comment loop: the newline that ends the comment is
\* consumed with it.
RECURSIVE comment_through_newline(_, _)
comment_through_newline(src, s) ==
  IF is_at_end(src, s) THEN s
  ELSE IF peek(src, s) = "\n" THEN advance(s)
  ELSE comment_through_newline(src, advance(s))

\* while self.peek() != b'\n' && !self.is_at_end() { self.advance(); }
RECURSIVE comment(_, _)
comment(src, s) ==
  IF peek(src, s) # "\n" /\ ~is_at_end(src, s)
  THEN comment(src, advance(s))
  ELSE s

\* Faulty variant of the loop of string: embedded newlines are not counted.
RECURSIVE string_body_no_lines(_, _)
string_body_no_lines(src, s) ==
  IF peek(src, s) # "\"" /\ ~is_at_end(src, s)
  THEN string_body_no_lines(src, advance(s))
  ELSE s

\* The loop of string: count embedded newlines, stop at a quote or the end.
RECURSIVE string_body(_, _)
string_body(src, s) ==
  IF peek(src, s) # "\"" /\ ~is_at_end(src, s)
  THEN string_body(src,
         advance(IF peek(src, s) = "\n" THEN [s EXCEPT !.line = @ + 1] ELSE s))
  ELSE s

\* Faulty variant of string: the lexeme keeps both quotes (the add_token call
\* the code has commented out), the literal is the content.
string_with_quotes(src, s0) ==
  LET s == string_body(src, s0) IN
  IF is_at_end(src, s)
  THEN [s EXCEPT !.errors =
          Append(@, [line |-> s.line, message |-> "Unterminated string."])]
  ELSE LET t == advance(s)
           value == SubSeq(src, t.start + 2, t.current - 1)
       IN [t EXCEPT !.tokens =
             Append(@, Token("String", SubSeq(src, t.start + 1, t.current),
                             Some(value), t.line))]

\* Faulty variant of string: the error carries the line of the opening quote.
string_error_at_opening_line(src, s0) ==
  LET s == string_body(src, s0) IN
  IF is_at_end(src, s)
  THEN [s EXCEPT !.errors =
          Append(@, [line |-> s0.line, message |-> "Unterminated string."])]
  ELSE LET t == advance(s)
           value == SubSeq(src, t.start + 2, t.current - 1)
       IN [t EXCEPT !.tokens =
             Append(@, Token("String", value, Some(value), t.line))]


\* Faulty variant of string: no return after the error, so the closing quote
\* is consumed and the token added even at the end of the input.
string_no_return(src, s0) ==
  LET s == string_body(src, s0)
      e == IF is_at_end(src, s)
           THEN [s EXCEPT !.errors =
                   Append(@, [line |-> s.line,
                              message |-> "Unterminated string."])]
           ELSE s
      t == advance(e)
      value == SubSeq(src, t.start + 2, t.current - 1)
  IN [t EXCEPT !.tokens =
        Append(@, Token("String", value, Some(value), t.line))]

string(src, s0) ==
  LET s == string_body(src, s0) IN
  IF is_at_end(src, s)
  THEN [s EXCEPT !.errors =
          Append(@, [line |-> s.line, message |-> "Unterminated string."])]
  ELSE LET t == advance(s)
           value == SubSeq(src, t.start + 2, t.current - 1)
       IN [t EXCEPT !.tokens =
             Append(@, Token("String", value, Some(value), t.line))]

\* while self.peek().is_ascii_digit() { self.advance(); }
RECURSIVE digits(_, _)
digits(src, s) ==
  IF is_ascii_digit(peek(src, s)) THEN digits(src, advance(s)) ELSE s

\* Faulty variant of number: the token is added with add_token (the call the
\* code has commented out), so it carries no literal.
number_no_literal(src, s0) ==
  LET s == digits(src, s0)
      t == IF peek(src, s) = "." /\ is_ascii_digit(peek_next(src, s))
           THEN digits(src, advance(s))
           ELSE s
  IN add_token(src, t, "Number")

\* Faulty variant of number: the '.' is consumed without looking at the byte
\* after it.
number_any_dot(src, s0) ==
  LET s == digits(src, s0)
      t == IF peek(src, s) = "." THEN digits(src, advance(s)) ELSE s
      value == SubSeq(src, t.start + 1, t.current)
  IN [t EXCEPT !.tokens =
        Append(@, Token("Number", value, Some(value), t.line))]

number(src, s0) ==
  LET s == digits(src, s0)
      t == IF peek(src, s) = "." /\ is_ascii_digit(peek_next(src, s))
           THEN digits(src, advance(s))
           ELSE s
      value == SubSeq(src, t.start + 1, t.current)
  IN [t EXCEPT !.tokens =
        Append(@, Token("Number", value, Some(value), t.line))]

\* The keyword table of identifier.
keyword(text) ==
  CASE text = <<"a", "n", "d">> -> "And"
    [] text = <<"c", "l", "a", "s", "s">> -> "Class"
    [] text = <<"e", "l", "s", "e">> -> "Else"
    [] text = <<"f", "a", "l", "s", "e">> -> "False"
    [] text = <<"f", "u", "n">> -> "Fun"
    [] text = <<"f", "o", "r">> -> "For"
    [] text = <<"i", "f">> -> "If"
    [] text = <<"n", "i", "l">> -> "Nil"
    [] text = <<"o", "r">> -> "Or"
    [] text = <<"p", "r", "i", "n", "t">> -> "Print"
    [] text = <<"r", "e", "t", "u", "r", "n">> -> "Return"
    [] text = <<"s", "u", "p", "e", "r">> -> "Super"
    [] text = <<"t", "h", "i", "s">> -> "This"
    [] text = <<"t", "r", "u", "e">> -> "True"
    [] text = <<"v", "a", "r">> -> "Var"
    [] text = <<"w", "h", "i", "l", "e">> -> "While"
    [] OTHER -> "Identifier"


\* Faulty variant of the loop of identifier: only letters continue the run.
RECURSIVE identifier_body_letters_only(_, _)
identifier_body_letters_only(src, s) ==
  IF is_ascii_alphabetic(peek(src, s))
  THEN identifier_body_letters_only(src, advance(s))
  ELSE s

\* while self.peek().is_ascii_alphanumeric() || self.peek() == b'_' { ... }
RECURSIVE identifier_body(_, _)
identifier_body(src, s) ==
  IF is_ascii_alphanumeric(peek(src, s)) \/ peek(src, s) = "_"
  THEN identifier_body(src, advance(s))
  ELSE s

identifier(src, s0) ==
  LET s == identifier_body(src, s0)
      text == SubSeq(src, s.start + 1, s.current)
  IN [s EXCEPT !.tokens = Append(@, Token(keyword(text), text, None, s.line))]

\* The operator arms: one look-ahead with match_char, then add_token.
operator(src, s, one, two) ==
  LET m == match_char(src, s, "=") IN
  add_token(src, m.s, IF m.matched THEN two ELSE one)

\* Faulty variant of the '/' arm: a lone '/' adds no token.
slash_no_token(src, s) ==
  LET m == match_char(src, s, "/") IN
  IF m.matched THEN comment(src, m.s) ELSE m.s

\* The '/' arm.
slash(src, s) ==
  LET m == match_char(src, s, "/") IN
  IF m.matched THEN comment(src, m.s) ELSE add_token(src, m.s, "Slash")

\* Faulty variant of the last arm: the error is not recorded.
unexpected_silent(s, c) == s

\* Faulty variant of the last arm: the byte is also added as a token.
unexpected_with_token(s, c) ==
  [s EXCEPT
     !.errors =
       Append(@, [line |-> s.line, message |-> "Unexpected character: " \o c]),
     !.tokens = Append(@, Token("Identifier", <<c>>, None, s.line))]


\* Faulty variant of the last arm: the error is recorded and the cursor is put
\* back on the offending byte.
unexpected_retry(s, c) ==
  [s EXCEPT
     !.errors =
       Append(@, [line |-> s.line, message |-> "Unexpected character: " \o c]),
     !.current = s.start]

\* The last arm: an error, no token.
unexpected(s, c) ==
  [s EXCEPT !.errors =
     Append(@, [line |-> s.line, message |-> "Unexpected character: " \o c])]


\* Faulty variant of the '\n' arm: the line counter is not incremented.
newline_no_count(s) == s

\* The '\n' arm.
newline(s) == [s EXCEPT !.line = @ + 1]

\* scan_token, called with start = current and current < length.
scan_token(src, s0) ==
  LET c == src[s0.current + 1]
      s == advance(s0)
  IN CASE c = "(" -> add_token(src, s, "LeftParen")
       [] c = ")" -> add_token(src, s, "RightParen")
       [] c = "{" -> add_token(src, s, "LeftBrace")
       [] c = "}" -> add_token(src, s, "RightBrace")
       [] c = "," -> add_token(src, s, "Comma")
       [] c = "." -> add_token(src, s, "Dot")
       [] c = "-" -> add_token(src, s, "Minus")
       [] c = "+" -> add_token(src, s, "Plus")
       [] c = ";" -> add_token(src, s, "Semicolon")
       [] c = "*" -> add_token(src, s, "Star")
       [] c = "!" -> operator(src, s, "Bang", "BangEqual")
       [] c = "=" -> operator(src, s, "Equal", "EqualEqual")
       [] c = "<" -> operator(src, s, "Less", "LessEqual")
       [] c = ">" -> operator(src, s, "Greater", "GreaterEqual")
       [] c = "/" -> slash(src, s)
       [] c \in {" ", "\r", "\t"} -> s
       [] c = "\n" -> newline(s)
       [] c = "\"" -> string(src, s)
       [] OTHER ->
            IF is_ascii_digit(c) THEN number(src, s)
            ELSE IF is_ascii_alphabetic(c) \/ c = "_" THEN identifier(src, s)
            ELSE unexpected(s, c)

\* Faulty variant of the EOF token: built like add_token builds a token, with
\* the text of the last lexeme.
EofTokenAsAdded(ln) == Token("Eof", SubSeq(source, start + 1, current), None, ln)

\* The token scan_tokens pushes after its loop.
EofToken(ln) == Token("Eof", <<>>, None, ln)

\* scan_tokens as a function: the loop, then the EOF token.
RECURSIVE scan_tokens(_, _)
scan_tokens(src, s) ==
  IF ~is_at_end(src, s)
  THEN scan_tokens(src, scan_token(src, [s EXCEPT !.start = s.current]))
  ELSE [s EXCEPT !.tokens = Append(@, EofToken(s.line))]


(***************************************************************************)
(* The buffer accesses of one scan_token call: the byte offsets it indexes *)
(* with as_bytes()[i], and the ranges <<a, b>> it slices with source[a..b].*)
(* Each operator follows the control flow of the operator it is named      *)
(* after.                                                                  *)
(***************************************************************************)
\* self.source.as_bytes()[self.current], unguarded.
advance_reads(s) == {s.current}

\* Indexes current only after the is_at_end test has failed.
match_char_reads(src, s) == IF is_at_end(src, s) THEN {} ELSE {s.current}

peek_reads(src, s) == IF is_at_end(src, s) THEN {} ELSE {s.current}

\* Faulty variant of peek_next: the guard is the one of peek.
peek_next_reads_guarded_as_peek(src, s) ==
  IF s.current >= Len(src) THEN {} ELSE {s.current + 1}

peek_next_reads(src, s) ==
  IF s.current + 1 >= Len(src) THEN {} ELSE {s.current + 1}

RECURSIVE comment_reads(_, _)
comment_reads(src, s) ==
  peek_reads(src, s) \cup
    (IF peek(src, s) # "\n" /\ ~is_at_end(src, s)
     THEN advance_reads(s) \cup comment_reads(src, advance(s))
     ELSE {})

RECURSIVE string_body_reads(_, _)
string_body_reads(src, s) ==
  peek_reads(src, s) \cup
    (IF peek(src, s) # "\"" /\ ~is_at_end(src, s)
     THEN advance_reads(s) \cup string_body_reads(src, advance(s))
     ELSE {})

string_reads(src, s0) ==
  LET s == string_body(src, s0) IN
  string_body_reads(src, s0) \cup
    (IF is_at_end(src, s) THEN {} ELSE advance_reads(s))

string_slices(src, s0) ==
  LET s == string_body(src, s0) IN
  IF is_at_end(src, s) THEN {}
  ELSE {<<advance(s).start + 1, advance(s).current - 1>>}

RECURSIVE digits_reads(_, _)
digits_reads(src, s) ==
  peek_reads(src, s) \cup
    (IF is_ascii_digit(peek(src, s))
     THEN advance_reads(s) \cup digits_reads(src, advance(s))
     ELSE {})

number_reads(src, s0) ==
  LET s == digits(src, s0) IN
  digits_reads(src, s0) \cup peek_reads(src, s) \cup
    (IF peek(src, s) = "."
     THEN peek_next_reads(src, s) \cup
            (IF is_ascii_digit(peek_next(src, s))
             THEN advance_reads(s) \cup digits_reads(src, advance(s))
             ELSE {})
     ELSE {})

RECURSIVE identifier_reads(_, _)
identifier_reads(src, s) ==
  peek_reads(src, s) \cup
    (IF is_ascii_alphanumeric(peek(src, s)) \/ peek(src, s) = "_"
     THEN advance_reads(s) \cup identifier_reads(src, advance(s))
     ELSE {})

\* The offsets scan_token indexes when called in state s0.
scan_token_reads(src, s0) ==
  LET c == src[s0.current + 1]
      s == advance(s0)
  IN advance_reads(s0) \cup
     (CASE c \in {"!", "=", "<", ">"} -> match_char_reads(src, s)
        [] c = "/" ->
             match_char_reads(src, s) \cup
               (IF match_char(src, s, "/").matched
                THEN comment_reads(src, match_char(src, s, "/").s)
                ELSE {})
        [] c = "\"" -> string_reads(src, s)
        [] OTHER ->
             IF is_ascii_digit(c) THEN number_reads(src, s)
             ELSE IF is_ascii_alphabetic(c) \/ c = "_"
             THEN identifier_reads(src, s)
             ELSE {})

\* The ranges scan_token slices when called in state s0: the one of the
\* token it adds; the comment, whitespace, newline and error arms slice
\* nothing.
scan_token_slices(src, s0) ==
  LET c == src[s0.current + 1]
      s == advance(s0)
      t == scan_token(src, s0)
  IN CASE c = "\"" -> string_slices(src, s)
       [] c \in {" ", "\r", "\t", "\n"} -> {}
       [] c = "/" /\ match_char(src, s, "/").matched -> {}
       [] c \in {"(", ")", "{", "}", ",", ".", "-", "+", ";", "*", "/",
                 "!", "=", "<", ">"} -> {<<t.start, t.current>>}
       [] OTHER ->
            IF is_ascii_digit(c) \/ is_ascii_alphabetic(c) \/ c = "_"
            THEN {<<t.start, t.current>>}
            ELSE {}

(***************************************************************************)
(* The state machine.                                                      *)
(***************************************************************************)
\* The Scanner's mutable fields as one record.
self == [tokens |-> tokens, start |-> start, current |-> current,
         line |-> line, errors |-> errors]

\* Scanner::new(source) on a text of Texts; no scan_tokens call has returned.
Construct(Texts) ==
  /\ source \in Texts
  /\ tokens = new.tokens
  /\ start = new.start
  /\ current = new.current
  /\ line = new.line
  /\ errors = new.errors
  /\ passes = 0
  /\ scans = <<>>


\* Faulty variant of ScanToken: start is not moved to current before the call.
ScanTokenNoMark ==
  /\ passes < MaxPasses
  /\ ~is_at_end(source, self)
  /\ LET s == scan_token(source, self) IN
       /\ tokens' = s.tokens
       /\ start' = s.start
       /\ current' = s.current
       /\ line' = s.line
       /\ errors' = s.errors
  /\ UNCHANGED <<source, passes, scans>>

\* One iteration of the loop of scan_tokens.
ScanToken ==
  /\ passes < MaxPasses
  /\ ~is_at_end(source, self)
  /\ LET s == scan_token(source, [self EXCEPT !.start = current]) IN
       /\ tokens' = s.tokens
       /\ start' = s.start
       /\ current' = s.current
       /\ line' = s.line
       /\ errors' = s.errors
  /\ UNCHANGED <<source, passes, scans>>


\* Faulty variant of PushEof: the EOF token is pushed only when the list does
\* not end in one already.
PushEofOnce ==
  /\ passes < MaxPasses
  /\ is_at_end(source, self)
  /\ tokens' = IF tokens # <<>> /\ tokens[Len(tokens)].type = "Eof"
               THEN tokens
               ELSE Append(tokens, EofToken(line))
  /\ passes' = passes + 1
  /\ UNCHANGED <<source, start, current, line, errors, scans>>

\* The loop of scan_tokens has ended: push the EOF token and return.
PushEof ==
  /\ passes < MaxPasses
  /\ is_at_end(source, self)
  /\ tokens' = Append(tokens, EofToken(line))
  /\ passes' = passes + 1
  /\ UNCHANGED <<source, start, current, line, errors, scans>>

Next == ScanToken \/ PushEof

Init == Construct(SourceTexts)

Spec == Init /\ [][Next]_vars


\* Scans of texts made of the bytes that start a loop of the scanner (comment,
\* string, number, identifier), a dot, a newline and an unexpected byte.
\* scan_tokens is a sequential loop: while a step is possible, one is taken.
LoopBytes == {"/", "\"", "1", ".", "o", "\n", "@"}

InitLoops == Construct(UNION {[1..n -> LoopBytes] : n \in 0..MaxLen})

FairSpec == InitLoops /\ [][Next]_vars /\ WF_vars(Next)


\* Faulty variant of Rerun: the line counter outlives the Scanner.
RerunKeepingLine ==
  /\ passes = 1
  /\ Len(scans) + 1 < MaxScanners
  /\ scans' = Append(scans, [tokens |-> tokens, errors |-> errors])
  /\ tokens' = new.tokens
  /\ start' = new.start
  /\ current' = new.current
  /\ errors' = new.errors
  /\ passes' = 0
  /\ UNCHANGED <<source, line>>

\* run is called again on the same text, as the prompt loop does for a line
\* typed twice: the caller has the lists of the Scanner whose one scan_tokens
\* call returned (kept in scans), and a new Scanner is constructed.
Rerun ==
  /\ passes = 1
  /\ Len(scans) + 1 < MaxScanners
  /\ scans' = Append(scans, [tokens |-> tokens, errors |-> errors])
  /\ tokens' = new.tokens
  /\ start' = new.start
  /\ current' = new.current
  /\ line' = new.line
  /\ errors' = new.errors
  /\ passes' = 0
  /\ UNCHANGED source

NextRerun == ScanToken \/ PushEof \/ Rerun

\* Repeated scans of texts with tokens, newlines, strings, comments and errors.
RerunBytes == {"(", "\n", "\"", "@", "o", "/", "1"}

InitRerun == Construct(UNION {[1..n -> RerunBytes] : n \in 0..MaxLen})

SpecRerun == InitRerun /\ [][NextRerun]_vars

\* Scans of texts made of the eleven single-character punctuation bytes.
Punctuation == {"(", ")", "{", "}", ",", ".", "-", "+", ";", "*", "/"}

InitPunct == Construct(UNION {[1..n -> Punctuation] : n \in 0..MaxLen})

SpecPunct == InitPunct /\ [][Next]_vars

\* Scans of texts made of the four operator characters, a space, a
\* punctuation byte and a letter.
OperatorBytes == {"!", "=", "<", ">", " ", "(", "o"}

InitOperators == Construct(UNION {[1..n -> OperatorBytes] : n \in 0..MaxLen})

SpecOperators == InitOperators /\ [][Next]_vars

\* Scans of texts made of digits, dots, a space, a letter and a newline.
NumberBytes == {"0", "1", "9", ".", " ", "o", "\n"}

InitNumbers == Construct(UNION {[1..n -> NumberBytes] : n \in 0..MaxLen})

SpecNumbers == InitNumbers /\ [][Next]_vars


\* Scans of every reserved word: alone, followed by one more byte, with its
\* first letter in upper case, and after an underscore.
ReservedWords ==
  {[text |-> <<"a", "n", "d">>, type |-> "And"],
   [text |-> <<"c", "l", "a", "s", "s">>, type |-> "Class"],
   [text |-> <<"e", "l", "s", "e">>, type |-> "Else"],
   [text |-> <<"f", "a", "l", "s", "e">>, type |-> "False"],
   [text |-> <<"f", "u", "n">>, type |-> "Fun"],
   [text |-> <<"f", "o", "r">>, type |-> "For"],
   [text |-> <<"i", "f">>, type |-> "If"],
   [text |-> <<"n", "i", "l">>, type |-> "Nil"],
   [text |-> <<"o", "r">>, type |-> "Or"],
   [text |-> <<"p", "r", "i", "n", "t">>, type |-> "Print"],
   [text |-> <<"r", "e", "t", "u", "r", "n">>, type |-> "Return"],
   [text |-> <<"s", "u", "p", "e", "r">>, type |-> "Super"],
   [text |-> <<"t", "h", "i", "s">>, type |-> "This"],
   [text |-> <<"t", "r", "u", "e">>, type |-> "True"],
   [text |-> <<"v", "a", "r">>, type |-> "Var"],
   [text |-> <<"w", "h", "i", "l", "e">>, type |-> "While"]}

LowerCase ==
  <<"a", "b", "c", "d", "e", "f", "g", "h", "i", "j", "k", "l", "m",
    "n", "o", "p", "q", "r", "s", "t", "u", "v", "w", "x", "y", "z">>

UpperCase ==
  <<"A", "B", "C", "D", "E", "F", "G", "H", "I", "J", "K", "L", "M",
    "N", "O", "P", "Q", "R", "S", "T", "U", "V", "W", "X", "Y", "Z">>

Capitalised(text) ==
  [text EXCEPT ![1] =
     UpperCase[CHOOSE i \in 1..Len(LowerCase) : LowerCase[i] = text[1]]]

KeywordSuffixes ==
  {<<>>, <<"e">>, <<"E">>, <<"_">>, <<"1">>, <<" ">>, <<"(">>, <<".">>, <<"\n">>}

KeywordTexts ==
  UNION {{w.text \o suffix : suffix \in KeywordSuffixes}
           \cup {Capitalised(w.text), <<"_">> \o w.text} : w \in ReservedWords}

InitKeywords == Construct(KeywordTexts)

SpecKeywords == InitKeywords /\ [][Next]_vars

(***************************************************************************)
(* Vocabulary of the properties.                                           *)
(***************************************************************************)
Last(seq) == seq[Len(seq)]

Types(toks) == [i \in 1..Len(toks) |-> toks[i].type]

\* The number of newline bytes in src before byte offset off.
NewlinesBefore(src, off) == Cardinality({i \in 1..off : src[i] = "\n"})

\* A step that only appends to the token list, and what it appends.
TokensExtended ==
  /\ Len(tokens') >= Len(tokens)
  /\ SubSeq(tokens', 1, Len(tokens)) = tokens

NewTokens == SubSeq(tokens', Len(tokens) + 1, Len(tokens'))

NewErrors == SubSeq(errors', Len(errors) + 1, Len(errors'))

\* A step of the first pass that scans one lexeme, and its first byte.
ScanStep == passes = 0 /\ current < Len(source)

FirstByte == source[current + 1]

\* The byte after the first byte of the lexeme, when there is one.
HasSecondByte == current + 1 < Len(source)

SecondByte == source[current + 2]

OperatorChars == {"!", "=", "<", ">"}

Whitespace == {" ", "\r", "\t"}

\* A byte that starts no lexeme.
IsUnexpected(c) ==
  c \notin Punctuation \cup OperatorChars \cup Whitespace \cup {"\n", "\"", "_"}
             \cup Digits \cup Letters

(***************************************************************************)
(* C1: after one scan_tokens pass on a fresh Scanner the token list is     *)
(* non-empty, holds exactly one EOF token, that token is the last one, and *)
(* it has an empty lexeme and no literal.                                  *)
(***************************************************************************)
C1_OneEofLast ==
  passes = 1 =>
    /\ Len(tokens) >= 1
    /\ Last(tokens).type = "Eof"
    /\ Last(tokens).lexeme = <<>>
    /\ Last(tokens).literal = None
    /\ Cardinality({i \in 1..Len(tokens) : tokens[i].type = "Eof"}) = 1

\* A finished pass over a text that produced tokens and an error.
C1_Witness == passes = 1 /\ Len(tokens) >= 3 /\ Len(errors) >= 1

C3_LiteralIffStringOrNumber ==
  [][/\ TokensExtended
     /\ \A i \in 1..Len(NewTokens) :
          LET t == NewTokens[i] IN
          /\ (t.literal # None) <=> (t.type \in {"String", "Number"})
          /\ t.type = "Number" =>
               /\ t.literal = Some(t.lexeme)
               /\ t.lexeme = SubSeq(source, start' + 1, current')
          /\ t.type = "String" =>
               /\ source[start' + 1] = "\""
               /\ source[current'] = "\""
               /\ \A k \in (start' + 2)..(current' - 1) : source[k] # "\""
               /\ t.literal = Some(SubSeq(source, start' + 2, current' - 1))]_vars

\* An empty STRING, a NUMBER and a token without literal have been emitted.
C3_Witness ==
  \E i, j, k \in 1..Len(tokens) :
    /\ tokens[i].type = "String" /\ tokens[i].literal = Some(<<>>)
    /\ tokens[j].type = "Number" /\ tokens[j].literal # None
    /\ tokens[k].type \notin {"String", "Number", "Eof"}
    /\ tokens[k].literal = None

(***************************************************************************)
(* C4: a lexeme that starts with '!', '=', '<' or '>' and is followed by   *)
(* '=' yields the two-character operator and advances current by 2;        *)
(* followed by any other byte, or by the end of the input, it yields the   *)
(* one-character operator and advances current by exactly 1.               *)
(***************************************************************************)
OneCharOperator(c) ==
  CASE c = "!" -> "Bang" [] c = "=" -> "Equal"
    [] c = "<" -> "Less" [] c = ">" -> "Greater"

TwoCharOperator(c) ==
  CASE c = "!" -> "BangEqual" [] c = "=" -> "EqualEqual"
    [] c = "<" -> "LessEqual" [] c = ">" -> "GreaterEqual"

C4_OperatorLookahead ==
  [][(ScanStep /\ FirstByte \in OperatorChars) =>
       IF HasSecondByte /\ SecondByte = "="
       THEN /\ tokens' = Append(tokens, Token(TwoCharOperator(FirstByte),
                                              <<FirstByte, "=">>, None, line))
            /\ current' = current + 2
       ELSE /\ tokens' = Append(tokens, Token(OneCharOperator(FirstByte),
                                              <<FirstByte>>, None, line))
            /\ current' = current + 1]_vars

\* A two-character operator, then a one-character operator followed by a
\* byte that became its own token.
C4_Witness ==
  /\ Len(tokens) >= 3
  /\ tokens[1].type \in {"BangEqual", "EqualEqual", "LessEqual", "GreaterEqual"}
  /\ tokens[2].type \in {"Bang", "Equal", "Less", "Greater"}
  /\ tokens[3].type \in {"LeftParen", "Identifier", "Bang", "Less", "Greater"}

(***************************************************************************)
(* C5: a NUMBER lexeme is a maximal digit run, or a maximal digit run, a   *)
(* '.' and a further non-empty maximal digit run; the '.' is consumed      *)
(* exactly when the byte after it is a digit, so no NUMBER lexeme ends in  *)
(* '.', and a '.' after a digit run that is followed by a non-digit or by  *)
(* the end of the input becomes a DOT token ("1." yields NUMBER 1, DOT,    *)
(* EOF).                                                                   *)
(***************************************************************************)
\* The offset after the maximal digit run starting at offset off.
RunEnd(src, off) ==
  IF \E k \in (off + 1)..Len(src) : src[k] \notin Digits
  THEN (CHOOSE k \in (off + 1)..Len(src) :
          /\ src[k] \notin Digits
          /\ \A m \in (off + 1)..(k - 1) : src[m] \in Digits) - 1
  ELSE Len(src)

C5_NumberShape ==
  [][/\ (ScanStep /\ FirstByte \in Digits) =>
          LET e1 == RunEnd(source, current)
              fraction == /\ e1 + 1 < Len(source)
                          /\ source[e1 + 1] = "."
                          /\ source[e1 + 2] \in Digits
              e2 == IF fraction THEN RunEnd(source, e1 + 1) ELSE e1
              text == SubSeq(source, current + 1, e2)
          IN /\ current' = e2
             /\ tokens' = Append(tokens, Token("Number", text, Some(text), line))
             /\ Last(Last(tokens').lexeme) # "."
     /\ (/\ ScanStep
         /\ FirstByte = "."
         /\ current >= 1
         /\ source[current] \in Digits
         /\ Len(tokens) >= 1
         /\ Last(tokens).type = "Number") =>
          /\ tokens' = Append(tokens, Token("Dot", <<".">>, None, line))
          /\ current' = current + 1
          /\ (\A k \in 1..Len(Last(tokens).lexeme) :
                Last(tokens).lexeme[k] # ".") =>
               ~(HasSecondByte /\ SecondByte \in Digits)
     /\ (source = <<"1", ".">> /\ passes' = 1) =>
          Types(tokens') = <<"Number", "Dot", "Eof">>]_vars

\* A NUMBER with a fractional part directly followed by a DOT token.
C5_Witness ==
  \E i \in 1..Len(tokens) :
    /\ i + 1 <= Len(tokens)
    /\ tokens[i].type = "Number"
    /\ Len(tokens[i].lexeme) = 3
    /\ tokens[i].lexeme[2] = "."
    /\ tokens[i + 1].type = "Dot"

(***************************************************************************)
(* C6: every token carries 1 plus the number of newline bytes before the   *)
(* first byte of its lexeme, except that a STRING token carries 1 plus the *)
(* number of newline bytes before its closing quote; the newline that ends *)
(* a '//' comment is counted.                                              *)
(***************************************************************************)
C6_TokenLine ==
  [][/\ TokensExtended
     /\ \A i \in 1..Len(NewTokens) :
          LET t == NewTokens[i] IN
          t.line = 1 + NewlinesBefore(source,
                         CASE t.type = "String" -> current' - 1
                           [] t.type = "Eof" -> Len(source)
                           [] OTHER -> start')]_vars

\* A token on line 2 after a comment line, or a STRING closed on a later
\* line than it was opened on, followed by another token.
C6_Witness ==
  \/ /\ Len(source) >= 4
     /\ source[1] = "/" /\ source[2] = "/" /\ source[3] = "\n"
     /\ Len(tokens) >= 1 /\ tokens[1].type # "Eof" /\ tokens[1].line = 2
  \/ /\ Len(source) >= 4
     /\ source[1] = "\"" /\ source[2] = "\n" /\ source[3] = "\""
     /\ Len(tokens) >= 2 /\ tokens[1].type = "String" /\ tokens[1].line = 2
     /\ tokens[2].type # "Eof"

(***************************************************************************)
(* C7: a quote that is never closed adds exactly one error "Unterminated   *)
(* string." whose line is the line counter after every newline of the      *)
(* unterminated text has been counted, adds no token, leaves current at    *)
(* the end of the input, and the pass then ends by appending only the EOF  *)
(* token.                                                                  *)
(***************************************************************************)
C7_UnterminatedString ==
  [][/\ (/\ ScanStep
         /\ FirstByte = "\""
         /\ \A k \in (current + 2)..Len(source) : source[k] # "\"") =>
          /\ errors' =
               Append(errors,
                 [line |-> line + Cardinality({k \in (current + 2)..Len(source) :
                                                 source[k] = "\n"}),
                  message |-> "Unterminated string."])
          /\ tokens' = tokens
          /\ current' = Len(source)
          /\ passes' = 0
     /\ (/\ passes = 0
         /\ current = Len(source)
         /\ Len(errors) >= 1
         /\ Last(errors).message = "Unterminated string.") =>
          /\ tokens' = Append(tokens, Token("Eof", <<>>, None, line))
          /\ errors' = errors
          /\ current' = current
          /\ passes' = 1]_vars

\* A finished pass whose text opened a string on line 1 that ran over a
\* newline to the end of the input, after a token had been emitted.
C7_Witness ==
  /\ passes = 1
  /\ Len(tokens) = 2
  /\ Len(errors) = 1
  /\ errors[1] = [line |-> 2, message |-> "Unterminated string."]

(***************************************************************************)
(* C8: a byte at the start of a lexeme that starts no lexeme adds exactly  *)
(* one "Unexpected character" error at the current line, adds no token,    *)
(* advances current by one byte and does not stop the pass; no other step  *)
(* adds such an error, so the errors come one per such byte, in source     *)
(* order, and the pass still reaches the end and appends EOF.              *)
(***************************************************************************)
\* The unexpected bytes of a text in which every byte starts a lexeme of
\* its own or is skipped (no quote, no comment), as errors in source order.
RECURSIVE UnexpectedErrors(_, _)
UnexpectedErrors(src, n) ==
  IF n = 0 THEN <<>>
  ELSE IF IsUnexpected(src[n])
  THEN Append(UnexpectedErrors(src, n - 1),
              [line |-> 1 + NewlinesBefore(src, n - 1),
               message |-> "Unexpected character: " \o src[n]])
  ELSE UnexpectedErrors(src, n - 1)

NoQuoteNoComment(src) ==
  /\ \A k \in 1..Len(src) : src[k] # "\""
  /\ \A k \in 1..(Len(src) - 1) : ~(src[k] = "/" /\ src[k + 1] = "/")

C8_UnexpectedCharacter ==
  [][/\ (ScanStep /\ IsUnexpected(FirstByte)) =>
          /\ errors' = Append(errors,
               [line |-> line,
                message |-> "Unexpected character: " \o FirstByte])
          /\ tokens' = tokens
          /\ current' = current + 1
          /\ line' = line
          /\ passes' = 0
     /\ (ScanStep /\ ~IsUnexpected(FirstByte)) =>
          /\ Len(errors') >= Len(errors)
          /\ \A i \in 1..Len(NewErrors) :
               NewErrors[i].message = "Unterminated string."
     /\ (passes = 0 /\ passes' = 1) =>
          /\ current' = Len(source)
          /\ Last(tokens').type = "Eof"
          /\ NoQuoteNoComment(source) =>
               errors' = UnexpectedErrors(source, Len(source))]_vars

\* A finished pass with two such errors on different lines and a token
\* emitted after the first of them.
C8_Witness ==
  /\ passes = 1
  /\ Len(errors) = 2
  /\ errors[1].line = 1 /\ errors[2].line = 2
  /\ errors[1].message = "Unexpected character: @"
  /\ errors[2].message = "Unexpected character: @"
  /\ Len(tokens) >= 2

(***************************************************************************)
(* C9: the token list of a text equals the token list of the same text in  *)
(* which every unexpected byte that starts a lexeme is replaced by a       *)
(* space.                                                                  *)
(***************************************************************************)
\* The offsets at which the lexemes of src start.
RECURSIVE LexemeStarts(_, _)
LexemeStarts(src, s) ==
  IF is_at_end(src, s) THEN {}
  ELSE {s.current} \cup
       LexemeStarts(src, scan_token(src, [s EXCEPT !.start = s.current]))

Blanked(src) ==
  [i \in 1..Len(src) |->
     IF i - 1 \in LexemeStarts(src, new) /\ IsUnexpected(src[i])
     THEN " " ELSE src[i]]

C9_UnexpectedIsBlank ==
  passes = 1 => tokens = scan_tokens(Blanked(source), new).tokens

\* A finished pass with an error between two tokens.
C9_Witness ==
  /\ passes = 1
  /\ Len(tokens) >= 3
  /\ Len(errors) >= 1
  /\ Blanked(source) # source
  /\ \E i \in 2..(Len(source) - 1) : IsUnexpected(source[i])

(***************************************************************************)
(* C10 as stated: a text of single-character punctuation bytes only yields *)
(* one token per byte, of the byte's type and in order, then one EOF.      *)
(***************************************************************************)
PunctuationType(c) ==
  CASE c = "(" -> "LeftParen" [] c = ")" -> "RightParen"
    [] c = "{" -> "LeftBrace" [] c = "}" -> "RightBrace"
    [] c = "," -> "Comma" [] c = "." -> "Dot"
    [] c = "-" -> "Minus" [] c = "+" -> "Plus"
    [] c = ";" -> "Semicolon" [] c = "*" -> "Star"
    [] c = "/" -> "Slash"

OnlyPunctuation(src) == \A k \in 1..Len(src) : src[k] \in Punctuation

OneTokenPerByte ==
  Types(tokens) =
    [i \in 1..(Len(source) + 1) |->
       IF i <= Len(source) THEN PunctuationType(source[i]) ELSE "Eof"]

C10_OneTokenPerPunctuation ==
  (passes = 1 /\ OnlyPunctuation(source)) => OneTokenPerByte

(***************************************************************************)
(* C10 amended: a text of single-character punctuation bytes only, in      *)
(* which no '/' is directly followed by another '/', yields one token per  *)
(* byte, of the byte's type and in order, then one EOF (n bytes yield      *)
(* n + 1 tokens).                                                          *)
(***************************************************************************)
NoDoubleSlash(src) ==
  \A k \in 1..(Len(src) - 1) : ~(src[k] = "/" /\ src[k + 1] = "/")

C10_OneTokenPerPunctuationNoComment ==
  (passes = 1 /\ OnlyPunctuation(source) /\ NoDoubleSlash(source)) =>
    /\ OneTokenPerByte
    /\ Len(tokens) = Len(source) + 1

\* A finished pass over punctuation with two slashes that are not adjacent.
C10_Witness ==
  /\ passes = 1
  /\ Len(source) >= 3
  /\ source[1] = "/" /\ source[2] = "." /\ source[3] = "/"
  /\ Len(tokens) = Len(source) + 1

(***************************************************************************)
(* C11: identifier scanning consumes the maximal run of ASCII letters,     *)
(* digits and '_' and emits a keyword type only when the whole run is      *)
(* exactly, case-sensitively, one of the 16 reserved words; a reserved     *)
(* word directly followed by a further letter, digit or '_', or differing  *)
(* in case, yields one IDENTIFIER token for the whole run.                 *)
(***************************************************************************)
IdentifierBytes == Letters \cup Digits \cup {"_"}

\* The offset after the maximal run of identifier bytes starting at off.
IdentifierEnd(src, off) ==
  IF \E k \in (off + 1)..Len(src) : src[k] \notin IdentifierBytes
  THEN (CHOOSE k \in (off + 1)..Len(src) :
          /\ src[k] \notin IdentifierBytes
          /\ \A m \in (off + 1)..(k - 1) : src[m] \in IdentifierBytes) - 1
  ELSE Len(src)

ExpectedWordType(text) ==
  IF \E w \in ReservedWords : w.text = text
  THEN (CHOOSE w \in ReservedWords : w.text = text).type
  ELSE "Identifier"

C11_KeywordOrIdentifier ==
  [][(ScanStep /\ FirstByte \in Letters \cup {"_"}) =>
       LET text == SubSeq(source, current + 1, IdentifierEnd(source, current))
       IN /\ current' = IdentifierEnd(source, current)
          /\ tokens' = Append(tokens,
                         Token(ExpectedWordType(text), text, None, line))]_vars

\* A reserved word followed by '_' has been scanned as one IDENTIFIER.
C11_Witness ==
  /\ passes = 1
  /\ \E w \in ReservedWords : source = w.text \o <<"_">>
  /\ Len(tokens) = 2
  /\ tokens[1].type = "Identifier"
  /\ tokens[1].lexeme = source

(***************************************************************************)
(* C12: a '/' followed by a second '/' consumes every byte up to but not   *)
(* including the next newline (or up to the end of the input) and adds no  *)
(* token and no error for those bytes, whatever they are; the newline is   *)
(* consumed by the next scan_token, which counts it; a '/' not followed by *)
(* '/' adds a SLASH token.                                                 *)
(***************************************************************************)
\* The offset of the first newline at or after offset off, else the length.
LineEnd(src, off) ==
  IF \E k \in (off + 1)..Len(src) : src[k] = "\n"
  THEN (CHOOSE k \in (off + 1)..Len(src) :
          /\ src[k] = "\n"
          /\ \A m \in (off + 1)..(k - 1) : src[m] # "\n") - 1
  ELSE Len(src)

C12_Comment ==
  [][/\ (ScanStep /\ FirstByte = "/" /\ HasSecondByte /\ SecondByte = "/") =>
          /\ current' = LineEnd(source, current + 2)
          /\ tokens' = tokens
          /\ errors' = errors
          /\ line' = line
          /\ passes' = 0
     /\ (ScanStep /\ FirstByte = "/" /\ ~(HasSecondByte /\ SecondByte = "/")) =>
          /\ current' = current + 1
          /\ tokens' = Append(tokens, Token("Slash", <<"/">>, None, line))
          /\ errors' = errors
     /\ (ScanStep /\ FirstByte = "\n") =>
          /\ current' = current + 1
          /\ line' = line + 1
          /\ tokens' = tokens
          /\ errors' = errors]_vars

\* A finished pass over a comment that holds a quote or an unexpected byte
\* and ends in a newline: no token but EOF, no error, and the newline counted.
C12_Witness ==
  /\ passes = 1
  /\ Len(source) >= 4
  /\ source[1] = "/" /\ source[2] = "/"
  /\ source[3] \in {"\"", "@"}
  /\ source[4] = "\n"
  /\ Len(tokens) = 1
  /\ tokens[1].line = 2
  /\ errors = <<>>

(***************************************************************************)
(* C13: scan_tokens terminates on every finite input: each scan_token call *)
(* increases current by at least 1 and never past the end of the source,   *)
(* so the loop runs at most length(source) times, and the EOF token is     *)
(* eventually appended.                                                    *)
(***************************************************************************)
C13_Terminates ==
  /\ [][ScanStep => (current < current' /\ current' <= Len(source))]_vars
  /\ <>(passes >= 1 /\ current = Len(source) /\ Last(tokens).type = "Eof")

\* A finished pass that took as many scan_token calls as the text has bytes,
\* each byte a lexeme of its own.
C13_Witness ==
  /\ passes = 1
  /\ Len(source) >= 4
  /\ source[1] = "@" /\ source[2] = "\n" /\ source[3] = "/" /\ source[4] = "."
  /\ Len(tokens) = 3
  /\ Len(errors) = 1

CursorInBounds ==
  /\ 0 <= start
  /\ start <= current
  /\ current <= Len(source)
  /\ line >= 1

ErrorsExtended ==
  /\ Len(errors') >= Len(errors)
  /\ SubSeq(errors', 1, Len(errors)) = errors

C15_CursorAndLists ==
  [][/\ CursorInBounds
     /\ CursorInBounds'
     /\ current' >= current
     /\ line' >= line
     /\ TokensExtended
     /\ ErrorsExtended]_vars

\* In the middle of a pass: a lexeme of two bytes on line 2 has been scanned
\* and bytes remain.
C15_Witness ==
  /\ passes = 0
  /\ 0 < start
  /\ start + 2 <= current
  /\ current < Len(source)
  /\ line >= 2
  /\ Len(tokens) >= 1

(***************************************************************************)
(* C16: the byte ranges [start, current) of the successive scan_token      *)
(* calls of one pass tile the source: the first starts at 0, each starts   *)
(* where the previous one ended, every range is non-empty, the last ends   *)
(* at length(source), and each call adds at most one token, taken from its *)
(* own range, so the tokens are in source order and never overlap.         *)
(***************************************************************************)
\* Before the first call the range is empty at 0; afterwards it is non-empty.
RangeShape ==
  /\ current = 0 => start = 0
  /\ current > 0 => start < current

C16_RangesTile ==
  [][/\ RangeShape
     /\ RangeShape'
     /\ ScanStep =>
          /\ start' = current
          /\ current' > current
          /\ current' <= Len(source)
          /\ Len(tokens') <= Len(tokens) + 1
          /\ \A i \in 1..Len(NewTokens) :
               \E a \in start'..current' :
                 NewTokens[i].lexeme =
                   SubSeq(source, a + 1, a + Len(NewTokens[i].lexeme))
     /\ (passes = 0 /\ passes' = 1) => current' = Len(source)]_vars

\* A finished pass of three lexemes, the last of two bytes, and EOF.
C16_Witness ==
  /\ passes = 1
  /\ Len(tokens) = 4
  /\ start + 2 = current
  /\ current = Len(source)

(***************************************************************************)
(* C17: every newline byte of the source increments line exactly once,     *)
(* whether it stands between lexemes, at the end of a comment, inside a    *)
(* terminated string or inside an unterminated one: line is always 1 plus  *)
(* the number of newline bytes consumed so far, and at the end of a pass   *)
(* it is 1 plus the number of newline bytes of the source, which is the    *)
(* line of the EOF token.                                                  *)
(***************************************************************************)
C17_LineCountsNewlines ==
  /\ line = 1 + NewlinesBefore(source, current)
  /\ passes >= 1 =>
       /\ line = 1 + NewlinesBefore(source, Len(source))
       /\ Last(tokens).type = "Eof"
       /\ Last(tokens).line = line

\* A finished pass over a string or a comment with two newlines in or after it.
C17_Witness ==
  /\ passes = 1
  /\ Len(source) >= 3
  /\ source[1] \in {"\"", "/"}
  /\ source[2] \in {"\n", "/"}
  /\ line = 3
  /\ Last(tokens).line = 3

(***************************************************************************)
(* C18: no step of a scan reads outside the source buffer: every offset    *)
(* indexed by advance, match_char, peek and peek_next is below             *)
(* length(source), advance included (it is only called with current below  *)
(* the length), and every slice a..b taken has 0 <= a <= b <=              *)
(* length(source), for every input, the empty one and those ending in a    *)
(* quote, a slash, a dot, a digit or an operator character included.       *)
(***************************************************************************)
C18_NoReadOutside ==
  ScanStep =>
    LET s0 == [self EXCEPT !.start = current] IN
    /\ \A i \in scan_token_reads(source, s0) : 0 <= i /\ i < Len(source)
    /\ \A r \in scan_token_slices(source, s0) :
         0 <= r[1] /\ r[1] <= r[2] /\ r[2] <= Len(source)

\* A finished pass over an empty string followed by a digit and a final dot:
\* the string sliced an empty range and the number looked past the dot.
C18_Witness ==
  /\ passes = 1
  /\ Len(source) >= 4
  /\ source[1] = "\"" /\ source[2] = "\""
  /\ source[Len(source) - 1] \in Digits
  /\ source[Len(source)] = "."
  /\ Len(tokens) = 4
  /\ tokens[1].type = "String"
  /\ tokens[3].type = "Dot"

(***************************************************************************)
(* C19: a scan_tokens call on a Scanner whose pass has completed consumes  *)
(* no byte, changes neither start, current nor line, adds no error and no  *)
(* token other than EOF, and appends one more EOF token: the list holds as *)
(* many EOF tokens as calls have returned, all at its end.                 *)
(***************************************************************************)
EofCount(toks) == Cardinality({i \in 1..Len(toks) : toks[i].type = "Eof"})

C19_SecondCallAppendsEof ==
  [][passes >= 1 =>
       /\ tokens' = Append(tokens, Token("Eof", <<>>, None, line))
       /\ start' = start
       /\ current' = current
       /\ line' = line
       /\ errors' = errors
       /\ passes' = passes + 1
       /\ EofCount(tokens') = passes'
       /\ \A i \in 1..Len(tokens') :
            (tokens'[i].type = "Eof") <=> (i > Len(tokens') - passes')]_vars

\* Two calls have returned on a text that gave tokens and an error: the list
\* ends in two EOF tokens.
C19_Witness ==
  /\ passes = 2
  /\ Len(tokens) >= 4
  /\ Len(errors) >= 1
  /\ tokens[Len(tokens)].type = "Eof"
  /\ tokens[Len(tokens) - 1].type = "Eof"
  /\ tokens[Len(tokens) - 2].type # "Eof"

====
